---- MODULE Spec2Model ----
(***************************************************************************)
(* Boot-time VM manager of the CROSSCON hypervisor (src/core/vmm.c).       *)
(* Every physical CPU runs vmm_init concurrently: the two-pass CPU         *)
(* assignment, the partition bootstrap, the recursive vmm_create_vms, and  *)
(* after boot the dynamic create/destroy interface.                        *)
(***************************************************************************)
EXTENDS Integers, Sequences, FiniteSets, TLC

(* ---------------------------------------------------------------------- *)
(* Bounds of the model                                                     *)
(* ---------------------------------------------------------------------- *)
MaxCpus == 4       \* CPU identifiers the model has room for
NCPU == 2          \* largest number of physical CPUs that boot
MaxCpuNum == 2     \* largest platform.cpu_num of a flat configuration
MaxAddr == 4       \* VM struct slots of one partition's SEC_HYP_VM section
MaxVmid == 3       \* calls of vmm_alloc_vmid, where the callers are not bounded otherwise
MaxDyn == 3        \* dynamic VMs created after boot

CPU_MASTER == 0    \* the CPU that allocates and frees the assignment table

AllCpus == 0 .. (MaxCpus - 1)

VARIABLES
    vm_config,        \* vm_config_ptr: [vmlist, node]
    platform_cpus,    \* number of physical CPUs that boot
    cpu_glb_sync,     \* the global barrier token
    vm_assign,        \* the static assignment table of vmm_init
    vmid_ctr,         \* static id of vmm_alloc_vmid
    partition,        \* partition record, by page-table-entry value
    vms,              \* VM structs, by partition and address
    vmstack_children, \* child list of every virtual CPU
    pt,               \* per CPU: the entry installed at CROSSCONHYP_VM_BASE
    pc,               \* per CPU: position in vmm_init
    loc,              \* per CPU: locals of vmm_init
    stack,            \* per CPU: frames of vmm_create_vms, innermost first
    cur_vcpu,         \* per CPU: cpu.vcpu
    issued,           \* history: values returned by vmm_alloc_vmid, in lock order
    claims,           \* history: successful claims of vmm_create_vms
    built,            \* history: VM instances initialised by a level master
    vmid_lock,        \* static lock of vmm_alloc_vmid
    vcall,            \* per CPU: a call of vmm_alloc_vmid in progress
    last              \* history: the last completed dynamic operation

conf == << vm_config, platform_cpus >>
aux == << vmid_lock, vcall, last >>

vars == << vm_config, platform_cpus, cpu_glb_sync, vm_assign, vmid_ctr,
           partition, vms, vmstack_children, pt, pc, loc, stack, cur_vcpu,
           issued, claims, built, vmid_lock, vcall, last >>

Cpus == 0 .. (platform_cpus - 1)

(* ---------------------------------------------------------------------- *)
(* Configuration                                                           *)
(* ---------------------------------------------------------------------- *)
\* struct vm_config: cpu_affinity, platform.cpu_num, children
VmConfig(aff, n, ch) == [cpu_affinity |-> aff, cpu_num |-> n, children |-> ch]

vmlist_size == Len(vm_config.vmlist)
Cfg(node) == vm_config.node[node]
children_num(node) == Len(Cfg(node).children)

\* (1UL << cpu.id) & cpu_affinity
InAffinity(c, node) == c \in Cfg(node).cpu_affinity

(* ---------------------------------------------------------------------- *)
(* Collaborators: barrier tokens, virtual CPUs, VM structs                 *)
(* ---------------------------------------------------------------------- *)
\* ALIGN(VAL, TO): VAL rounded up to a multiple of TO
ALIGN(val, to) == ((val + to - 1) \div to) * to

\* cpu_sync_init: a barrier for n participants; a zeroed token is not ready
SyncInit(n) == [n |-> n, count |-> 0, ready |-> TRUE]
NoSync == [n |-> 0, count |-> 0, ready |-> FALSE]

\* cpu_sync_barrier, arrival: count the caller in; it leaves when the count
\* reaches the next multiple of n
SyncArrive(tok) == [tok EXCEPT !.count = @ + 1]
SyncTarget(tok) == ALIGN(tok.count + 1, tok.n)
SyncPassed(tok, tgt) == tok.count >= tgt

\* struct vcpu, named by the VM struct it lives in, the configuration it
\* was built for and its physical CPU; NoVcpu is the NULL pointer
Vcpu(a, node, c) == [vm |-> a, cfg |-> node, cpu |-> c]
NoVcpu == [vm |-> 0, cfg |-> 0, cpu |-> 0]

\* a VM struct page: unmapped, or mapped and zeroed by vmm_alloc_vm_struct
NoVm == [mapped |-> FALSE, id |-> 0, cfg |-> 0, sync |-> NoSync]
ZeroVm == [mapped |-> TRUE, id |-> 0, cfg |-> 0, sync |-> NoSync]

\* struct partition, zeroed; level is history: the configuration node that
\* init.curr_vm and init.ncpus were last set up for
NoPartition == [sync |-> NoSync, master |-> 0, curr_vm |-> 0, ncpus |-> 0,
                nodes_used |-> 0, level |-> 0]

\* one zeroed struct vm_assignment
ZeroAssign == [master |-> FALSE, ncpus |-> 0, cpus |-> {}, vm_shared_table |-> 0]

\* no call of vmm_alloc_vmid in progress; no dynamic operation yet
NoCall == [pc |-> "out", tmp |-> 0, vmid |-> 0]
NoOp == [op |-> "none", vm |-> 0, cpu |-> 0, vcpu |-> NoVcpu, used |-> 0,
         children |-> << >>, prev |-> "none", prev_vm |-> 0, prev_vcpu |-> NoVcpu]

\* locals of vmm_init (lines 193-196, 288)
InitLocals == [master |-> FALSE, assigned |-> FALSE, vm_id |-> 0, i |-> 0,
               tgt |-> 0, root |-> NoVcpu]

\* locals of one invocation of vmm_create_vms (lines 77-81, 107, 111-113)
NewFrame(node, parent) ==
    [config |-> node, parent |-> parent, vm |-> 0, vcpu |-> NoVcpu,
     assigned |-> FALSE, master |-> FALSE, vm_id |-> -1, i |-> 0,
     child |-> NoVcpu, tgt |-> 0, n |-> 0, pc |-> "cv_alloc"]

(* ---------------------------------------------------------------------- *)
(* vmm_init: entry, assignment table, global barriers                      *)
(* ---------------------------------------------------------------------- *)
\* no CPU takes the part of the global master
NoCpuMaster(c) == FALSE

\* lines 179, 282: cpu.id == CPU_MASTER
IsCpuMaster(c) == c = CPU_MASTER

\* lines 162-168: no VM to run: idle; else on to the allocation of the table
vmm_init_entry(c) ==
    /\ pc[c] = "entry"
    /\ pc' = [pc EXCEPT ![c] = IF vmlist_size = 0 THEN "idle"
                               ELSE IF IsCpuMaster(c) THEN "alloc" ELSE "sync1"]
    /\ UNCHANGED << conf, aux, cpu_glb_sync, vm_assign, vmid_ctr,
                    partition, vms, vmstack_children, pt, loc, stack, cur_vcpu,
                    issued, claims, built >>

\* lines 179-189: CPU_MASTER allocates and zeroes the assignment table
vmm_init_alloc(c) ==
    /\ pc[c] = "alloc"
    /\ vm_assign' = [state |-> "live",
                     e |-> [i \in 0 .. (vmlist_size - 1) |-> ZeroAssign]]
    /\ pc' = [pc EXCEPT ![c] = "sync1"]
    /\ UNCHANGED << conf, aux, cpu_glb_sync, vmid_ctr,
                    partition, vms, vmstack_children, pt, loc, stack, cur_vcpu,
                    issued, claims, built >>

\* where a CPU waits after arriving at the k-th cpu_glb_sync barrier, and
\* where it goes on (lines 191, 222, 250, 280)
GlbWait == [sync1 |-> "wait1", sync2 |-> "wait2", sync3 |-> "wait3", sync4 |-> "wait4"]
GlbNext == [wait1 |-> "aff", wait2 |-> "fb", wait3 |-> "boot", wait4 |-> "free"]

\* cpu_sync_barrier(&cpu_glb_sync): arrival
glb_barrier_arrive(c) ==
    /\ pc[c] \in DOMAIN GlbWait
    /\ cpu_glb_sync.ready
    /\ cpu_glb_sync' = SyncArrive(cpu_glb_sync)
    /\ loc' = [loc EXCEPT ![c].tgt = SyncTarget(cpu_glb_sync)]
    /\ pc' = [pc EXCEPT ![c] = GlbWait[pc[c]]]
    /\ UNCHANGED << conf, aux, vm_assign, vmid_ctr,
                    partition, vms, vmstack_children, pt, stack, cur_vcpu,
                    issued, claims, built >>

\* the barrier lets every caller through at once
GlbNeverWaits(tok, tgt) == TRUE

\* lines 191, 222, 250, 280: the call returns when every CPU has arrived
GlbReleased(tok, tgt) == SyncPassed(tok, tgt)

\* cpu_sync_barrier(&cpu_glb_sync): every participant has arrived
glb_barrier_leave(c) ==
    /\ pc[c] \in DOMAIN GlbNext
    /\ GlbReleased(cpu_glb_sync, loc[c].tgt)
    /\ pc' = [pc EXCEPT ![c] = GlbNext[pc[c]]]
    /\ loc' = [loc EXCEPT ![c].i = 0]
    /\ UNCHANGED << conf, aux, cpu_glb_sync, vm_assign, vmid_ctr,
                    partition, vms, vmstack_children, pt, stack, cur_vcpu,
                    issued, claims, built >>

(* ---------------------------------------------------------------------- *)
(* vmm_init: the two assignment passes                                     *)
(* ---------------------------------------------------------------------- *)
\* lines 205-207, 214-215, 233-234+237, 241-242: the entry after a claim by c
Claim(e, c) == [e EXCEPT !.master = TRUE, !.ncpus = @ + 1, !.cpus = @ \cup {c}]

\* every affine CPU is elected, whatever the master flag
AffinityElectsAlways(e) == TRUE

\* line 204: the first affine CPU at the entry is elected
AffinityElects(e) == ~e.master

\* lines 211-212: a later affine CPU joins while there is room
AffinityJoins(e, cpu_num) == e.ncpus < cpu_num

\* the loop goes on after a successful claim
PassContinuesAssigned(l) == l.i < vmlist_size

\* line 201 / line 228: the loop goes on
PassContinues(l) == l.i < vmlist_size /\ ~l.assigned

\* lines 201-220: one iteration of the affinity pass
vmm_init_affinity(c) ==
    /\ pc[c] = "aff"
    /\ LET l == loc[c]
           node == vm_config.vmlist[l.i + 1]
           e == vm_assign.e[l.i]
           elect == AffinityElects(e)
           take == InAffinity(c, node) /\ (elect \/ AffinityJoins(e, Cfg(node).cpu_num))
           l2 == IF take
                 THEN [l EXCEPT !.master = IF elect THEN TRUE ELSE @, !.assigned = TRUE,
                                !.vm_id = l.i, !.i = @ + 1]
                 ELSE [l EXCEPT !.i = @ + 1]
       IN  /\ vm_assign' = IF take
                           THEN [vm_assign EXCEPT !.e[l.i] = Claim(e, c)]
                           ELSE vm_assign
           /\ loc' = [loc EXCEPT ![c] = l2]
           /\ pc' = [pc EXCEPT ![c] = IF PassContinues(l2) THEN "aff" ELSE "sync2"]
    /\ UNCHANGED << conf, aux, cpu_glb_sync, vmid_ctr,
                    partition, vms, vmstack_children, pt, stack, cur_vcpu,
                    issued, claims, built >>

\* line 227: only a CPU the affinity pass left unassigned scans again
EntersFallback(l) == l.assigned = FALSE

\* lines 230-231: the entry is still under its required count
FallbackHasRoom(e, cpu_num) == e.ncpus < cpu_num

\* lines 227-248: one iteration of the fallback pass (or its skipping)
vmm_init_fallback(c) ==
    /\ pc[c] = "fb"
    /\ LET l == loc[c] IN
       IF l.i = 0 /\ ~(EntersFallback(l) /\ PassContinues(l))
       THEN /\ pc' = [pc EXCEPT ![c] = "sync3"]
            /\ UNCHANGED << vm_assign, loc >>
       ELSE LET node == vm_config.vmlist[l.i + 1]
                e == vm_assign.e[l.i]
                take == FallbackHasRoom(e, Cfg(node).cpu_num)
                l2 == IF take
                      THEN [l EXCEPT !.master = IF ~e.master THEN TRUE ELSE @,
                                     !.assigned = TRUE,
                                     !.vm_id = l.i, !.i = @ + 1]
                      ELSE [l EXCEPT !.i = @ + 1]
            IN  /\ vm_assign' = IF take
                                THEN [vm_assign EXCEPT !.e[l.i] = Claim(e, c)]
                                ELSE vm_assign
                /\ loc' = [loc EXCEPT ![c] = l2]
                /\ pc' = [pc EXCEPT ![c] = IF PassContinues(l2) THEN "fb" ELSE "sync3"]
    /\ UNCHANGED << conf, aux, cpu_glb_sync, vmid_ctr,
                    partition, vms, vmstack_children, pt, stack, cur_vcpu,
                    issued, claims, built >>

(* ---------------------------------------------------------------------- *)
(* vmm_init: partition bootstrap                                           *)
(* ---------------------------------------------------------------------- *)
\* the entry mem_map installs at CROSSCONHYP_VM_BASE for pages freshly
\* allocated by CPU c: distinct allocations get distinct pages, never 0
PteOf(c) == c + 1

Partitions == 1 .. MaxCpus
Addrs == 1 .. MaxAddr

\* the barrier is set up for the master alone
PartitionSyncOfOne(e) == 1

\* line 265: the participant count of partition->sync
PartitionSyncCount(e) == e.ncpus

\* the master leaves vm_shared_table at zero
PublishesNothing(c, table) == 0

\* line 271: the value the master publishes
PublishedPte(c, table) == table[c]

\* the follower does not wait for the publication
FollowerSeesAnything(e) == TRUE

\* line 273: the follower leaves the spin-wait
FollowerSees(e) == e.vm_shared_table # 0

\* line 275: the value the follower installs
InstalledPte(c, l) == vm_assign.e[l.vm_id].vm_shared_table

\* lines 252-272: unassigned CPUs go on; the master allocates and initialises
\* the partition and publishes its entry; a follower starts to spin
vmm_init_partition(c) ==
    /\ pc[c] = "boot"
    /\ LET l == loc[c] IN
       IF l.assigned /\ l.master
       THEN LET p == PteOf(c)
                table == [pt EXCEPT ![c] = p]
            IN  /\ pt' = table
                /\ partition' = [partition EXCEPT ![p] =
                       [NoPartition EXCEPT
                           !.sync = SyncInit(PartitionSyncCount(vm_assign.e[l.vm_id])),
                           !.master = c]]
                /\ vm_assign' = [vm_assign EXCEPT
                       !.e[l.vm_id].vm_shared_table = PublishedPte(c, table)]
                /\ pc' = [pc EXCEPT ![c] = "sync4"]
       ELSE /\ pc' = [pc EXCEPT ![c] = IF l.assigned THEN "spin" ELSE "sync4"]
            /\ UNCHANGED << pt, partition, vm_assign >>
    /\ UNCHANGED << conf, aux, cpu_glb_sync, vmid_ctr,
                    vms, vmstack_children, loc, stack, cur_vcpu,
                    issued, claims, built >>

\* lines 273-276: the follower installs the published entry
vmm_init_follower(c) ==
    /\ pc[c] = "spin"
    /\ FollowerSees(vm_assign.e[loc[c].vm_id])
    /\ pt' = [pt EXCEPT ![c] = InstalledPte(c, loc[c])]
    /\ pc' = [pc EXCEPT ![c] = "sync4"]
    /\ UNCHANGED << conf, aux, cpu_glb_sync, vm_assign, vmid_ctr,
                    partition, vms, vmstack_children, loc, stack, cur_vcpu,
                    issued, claims, built >>

\* lines 282-290, 296: CPU_MASTER releases the table; an assigned CPU calls
\* vmm_create_vms(vmlist[vm_id], NULL), the others idle
vmm_init_free(c) ==
    /\ pc[c] = "free"
    /\ vm_assign' = IF IsCpuMaster(c) THEN [vm_assign EXCEPT !.state = "freed"]
                    ELSE vm_assign
    /\ IF loc[c].assigned
       THEN /\ stack' = [stack EXCEPT ![c] =
                   << NewFrame(vm_config.vmlist[loc[c].vm_id + 1], NoVcpu) >>]
            /\ pc' = [pc EXCEPT ![c] = "create"]
       ELSE /\ pc' = [pc EXCEPT ![c] = "idle"]
            /\ UNCHANGED stack
    /\ UNCHANGED << conf, aux, cpu_glb_sync, vmid_ctr,
                    partition, vms, vmstack_children, pt, loc, cur_vcpu,
                    issued, claims, built >>

(* ---------------------------------------------------------------------- *)
(* vmm_alloc_vm_struct, vmm_alloc_vmid                                     *)
(* ---------------------------------------------------------------------- *)
\* lines 35-42: fresh zeroed pages at the first free address of the section
HasFreeAddr(p) == \E a \in Addrs : ~vms[p][a].mapped
FreeAddr(p) == CHOOSE a \in Addrs :
                   /\ ~vms[p][a].mapped
                   /\ \A b \in Addrs : b < a => vms[p][b].mapped
vmm_alloc_vm_struct(p) == [vms EXCEPT ![p][FreeAddr(p)] = ZeroVm]

\* line 58: vmid = ++id
vmm_alloc_vmid(ctr) == ctr + 1

(* ---------------------------------------------------------------------- *)
(* vmm_create_vms                                                          *)
(* ---------------------------------------------------------------------- *)
Top(c) == stack[c][1]
SetTop(c, f) == [stack EXCEPT ![c] = << f >> \o Tail(stack[c])]
InCreate(c, at) == pc[c] = "create" /\ Top(c).pc = at

\* a node is made for whatever the recursion returned
RecordsChildAlways(v) == TRUE

\* line 114: if(child != NULL)
RecordsChild(v) == v # NoVcpu

\* line 124 and the caller's lines 113-114, or vmm_init's line 290: v is
\* handed to the calling frame
Return(v, rest) ==
    IF rest = << >>
    THEN [stk |-> << >>, done |-> TRUE, ret |-> v]
    ELSE [stk |-> << [rest[1] EXCEPT !.child = v,
                                     !.pc = IF RecordsChild(v) THEN "cv_node"
                                            ELSE "cv_sync3"] >>
                  \o Tail(rest),
          done |-> FALSE, ret |-> NoVcpu]

\* lines 111-113 and 124: the next child is entered, or the vCPU is returned
Resume(f, rest) ==
    IF f.i < children_num(f.config)
    THEN [stk |-> << NewFrame(Cfg(f.config).children[f.i + 1], f.vcpu), f >> \o rest,
          done |-> FALSE, ret |-> NoVcpu]
    ELSE Return(f.vcpu, rest)

Proceed(c, r) ==
    /\ stack' = [stack EXCEPT ![c] = r.stk]
    /\ pc' = [pc EXCEPT ![c] = IF r.done THEN "psync" ELSE "create"]
    /\ loc' = IF r.done THEN [loc EXCEPT ![c].root = r.ret] ELSE loc

\* line 66: cpu.id == partition->master
IsPartitionMaster(c, part) == c = part.master

\* lines 66-69: the partition master allocates the VM struct of this level
\* and resets the per-level counter
vmm_create_vms_alloc(c) ==
    /\ InCreate(c, "cv_alloc")
    /\ LET p == pt[c] IN
       IF IsPartitionMaster(c, partition[p])
       THEN /\ HasFreeAddr(p)
            /\ vms' = vmm_alloc_vm_struct(p)
            /\ partition' = [partition EXCEPT ![p].curr_vm = FreeAddr(p),
                                              ![p].ncpus = 0,
                                              ![p].level = Top(c).config]
       ELSE UNCHANGED << vms, partition >>
    /\ stack' = SetTop(c, [Top(c) EXCEPT !.pc = "cv_sync1"])
    /\ UNCHANGED << conf, aux, cpu_glb_sync, vm_assign, vmid_ctr,
                    vmstack_children, pt, pc, loc, cur_vcpu,
                    issued, claims, built >>

\* lines 71-75, 92-96: the barrier of the level is the parent VM's, or the
\* partition's at the top level; line 120: the barrier of this VM
LevelSyncIsPartition(f) == f.pc \in {"cv_sync1", "cv_wait1", "cv_sync2", "cv_wait2"}
                           /\ f.parent = NoVcpu
SyncVm(f) == IF f.pc \in {"cv_sync3", "cv_wait3"} THEN f.vm ELSE f.parent.vm
FrameSync(p, f) == IF LevelSyncIsPartition(f) THEN partition[p].sync
                   ELSE vms[p][SyncVm(f)].sync

CvWait == [cv_sync1 |-> "cv_wait1", cv_sync2 |-> "cv_wait2", cv_sync3 |-> "cv_wait3"]

\* cpu_sync_barrier at lines 72/74, 93/95, 120: arrival
vmm_create_vms_arrive(c) ==
    /\ pc[c] = "create"
    /\ Top(c).pc \in DOMAIN CvWait
    /\ LET p == pt[c]
           f == Top(c)
           tok == FrameSync(p, f)
       IN  /\ tok.ready
           /\ IF LevelSyncIsPartition(f)
              THEN /\ partition' = [partition EXCEPT ![p].sync = SyncArrive(tok)]
                   /\ UNCHANGED vms
              ELSE /\ vms' = [vms EXCEPT ![p][SyncVm(f)].sync = SyncArrive(tok)]
                   /\ UNCHANGED partition
           /\ stack' = SetTop(c, [f EXCEPT !.tgt = SyncTarget(tok), !.pc = CvWait[f.pc]])
    /\ UNCHANGED << conf, aux, cpu_glb_sync, vm_assign, vmid_ctr,
                    vmstack_children, pt, pc, loc, cur_vcpu,
                    issued, claims, built >>

\* cpu_sync_barrier at lines 72/74 and 93/95: released
vmm_create_vms_leave(c) ==
    /\ pc[c] = "create"
    /\ Top(c).pc \in {"cv_wait1", "cv_wait2"}
    /\ LET f == Top(c) IN
       /\ SyncPassed(FrameSync(pt[c], f), f.tgt)
       /\ stack' = SetTop(c, [f EXCEPT !.pc = IF f.pc = "cv_wait1" THEN "cv_read"
                                               ELSE "cv_claim2"])
    /\ UNCHANGED << conf, aux, cpu_glb_sync, vm_assign, vmid_ctr,
                    partition, vms, vmstack_children, pt, pc, loc, cur_vcpu,
                    issued, claims, built >>

\* line 77: vm = partition->init.curr_vm
vmm_create_vms_read(c) ==
    /\ InCreate(c, "cv_read")
    /\ stack' = SetTop(c, [Top(c) EXCEPT !.vm = partition[pt[c]].curr_vm,
                                         !.pc = "cv_claim1"])
    /\ UNCHANGED << conf, aux, cpu_glb_sync, vm_assign, vmid_ctr,
                    partition, vms, vmstack_children, pt, pc, loc, cur_vcpu,
                    issued, claims, built >>

\* lines 84, 99: the level is still under its required count
LevelHasRoom(part, cpu_num) == part.ncpus < cpu_num

\* lines 86, 100: the first claimant of the level is its master
LevelElects(part) == part.ncpus = 0

\* spin_lock(&partition->lock): no CPU of the partition is between the test
\* and the increment of lines 99-101
PartitionLockFree(c) ==
    \A d \in Cpus : (d # c /\ pt[d] = pt[c] /\ pc[d] = "create") =>
                        Top(d).pc # "cv_count2"

\* lines 83-90: first-pass claim, for the CPUs of the affinity mask
vmm_create_vms_claim1(c) ==
    /\ InCreate(c, "cv_claim1")
    /\ PartitionLockFree(c)
    /\ LET p == pt[c]
           f == Top(c)
           part == partition[p]
           take == LevelHasRoom(part, Cfg(f.config).cpu_num) /\ InAffinity(c, f.config)
           m == take /\ LevelElects(part)
       IN  /\ partition' = IF take THEN [partition EXCEPT ![p].ncpus = @ + 1]
                           ELSE partition
           /\ claims' = IF take
                        THEN claims \cup {[cfg |-> f.config, cpu |-> c, master |-> m]}
                        ELSE claims
           /\ stack' = SetTop(c, [f EXCEPT !.assigned = take, !.master = m,
                                           !.pc = "cv_sync2"])
    /\ UNCHANGED << conf, aux, cpu_glb_sync, vm_assign, vmid_ctr,
                    vms, vmstack_children, pt, pc, loc, cur_vcpu,
                    issued, built >>

\* lines 98-100 and 106: the test of the second-pass claim by a CPU not yet
\* assigned, under the partition lock; it reads init.ncpus, which the
\* partition master resets for the next level without taking the lock (line
\* 68). A CPU that claimed nothing returns NULL
vmm_create_vms_claim2(c) ==
    /\ InCreate(c, "cv_claim2")
    /\ PartitionLockFree(c)
    /\ LET p == pt[c]
           f == Top(c)
           part == partition[p]
           take == ~f.assigned /\ LevelHasRoom(part, Cfg(f.config).cpu_num)
           m == take /\ LevelElects(part)
       IN  IF take
           THEN /\ stack' = SetTop(c, [f EXCEPT !.assigned = TRUE, !.master = m,
                                                !.n = part.ncpus, !.pc = "cv_count2"])
                /\ UNCHANGED << pc, loc >>
           ELSE IF f.assigned
           THEN /\ stack' = SetTop(c, [f EXCEPT !.pc = IF f.master THEN "cv_vmid"
                                                       ELSE "cv_init"])
                /\ UNCHANGED << pc, loc >>
           ELSE Proceed(c, Return(NoVcpu, Tail(stack[c])))
    /\ UNCHANGED << conf, aux, cpu_glb_sync, vm_assign, vmid_ctr,
                    partition, vms, vmstack_children, pt, cur_vcpu,
                    issued, claims, built >>

\* lines 101-103: partition->init.ncpus++ stores the value read plus one,
\* and the lock is released
vmm_create_vms_count2(c) ==
    /\ InCreate(c, "cv_count2")
    /\ LET p == pt[c]
           f == Top(c)
       IN  /\ partition' = [partition EXCEPT ![p].ncpus = f.n + 1]
           /\ claims' = claims \cup {[cfg |-> f.config, cpu |-> c, master |-> f.master]}
           /\ stack' = SetTop(c, [f EXCEPT !.pc = IF f.master THEN "cv_vmid"
                                                   ELSE "cv_init"])
    /\ UNCHANGED << conf, aux, cpu_glb_sync, vm_assign, vmid_ctr,
                    vms, vmstack_children, pt, pc, loc, cur_vcpu,
                    issued, built >>

\* lines 108-109: the level master takes a VMID
vmm_create_vms_vmid(c) ==
    /\ InCreate(c, "cv_vmid")
    /\ vmid_ctr' = vmm_alloc_vmid(vmid_ctr)
    /\ issued' = Append(issued, vmid_ctr')
    /\ stack' = SetTop(c, [Top(c) EXCEPT !.vm_id = vmid_ctr', !.pc = "cv_init"])
    /\ UNCHANGED << conf, aux, cpu_glb_sync, vm_assign,
                    partition, vms, vmstack_children, pt, pc, loc, cur_vcpu,
                    claims, built >>

\* vm_init: the master initialises the VM struct (identifier, configuration,
\* the per-VM barrier for the required CPUs); every caller gets its vCPU
vm_init(v, node, master, vm_id) ==
    IF master
    THEN [v EXCEPT !.id = vm_id, !.cfg = node, !.sync = SyncInit(Cfg(node).cpu_num)]
    ELSE v

\* line 110, then the loop head of line 111
vmm_create_vms_init(c) ==
    /\ InCreate(c, "cv_init")
    /\ LET p == pt[c]
           f == Top(c)
           vcpu == Vcpu(f.vm, f.config, c)
       IN  /\ vms' = [vms EXCEPT ![p][f.vm] = vm_init(@, f.config, f.master, f.vm_id)]
           /\ vmstack_children' = (vcpu :> << >>) @@ vmstack_children
           /\ built' = IF f.master
                       THEN built \cup {[cfg |-> f.config, part |-> p, vm |-> f.vm,
                                         id |-> f.vm_id, cpu |-> c]}
                       ELSE built
           /\ Proceed(c, Resume([f EXCEPT !.vcpu = vcpu, !.i = 0], Tail(stack[c])))
    /\ UNCHANGED << conf, aux, cpu_glb_sync, vm_assign, vmid_ctr,
                    partition, pt, cur_vcpu, issued, claims >>

\* list_push: the node goes to the tail of the list
list_push(list, v) == Append(list, v)

\* lines 114-119: a CPU whose recursion returned a vCPU records it in a
\* node of the partition's pool, on the child list of its own vCPU
vmm_create_vms_node(c) ==
    /\ InCreate(c, "cv_node")
    /\ LET p == pt[c]
           f == Top(c)
       IN  /\ partition' = [partition EXCEPT ![p].nodes_used = @ + 1]
           /\ vmstack_children' = [vmstack_children EXCEPT
                                      ![f.vcpu] = list_push(@, f.child)]
           /\ stack' = SetTop(c, [f EXCEPT !.pc = "cv_sync3"])
    /\ UNCHANGED << conf, aux, cpu_glb_sync, vm_assign, vmid_ctr,
                    vms, pt, pc, loc, cur_vcpu, issued, claims, built >>

\* line 120 released, then lines 111-113 or 124
vmm_create_vms_next(c) ==
    /\ InCreate(c, "cv_wait3")
    /\ LET f == Top(c) IN
       /\ SyncPassed(FrameSync(pt[c], f), f.tgt)
       /\ Proceed(c, Resume([f EXCEPT !.i = @ + 1], Tail(stack[c])))
    /\ UNCHANGED << conf, aux, cpu_glb_sync, vm_assign, vmid_ctr,
                    partition, vms, vmstack_children, pt, cur_vcpu,
                    issued, claims, built >>

(* ---------------------------------------------------------------------- *)
(* vmm_init: the last barrier and the hand-over                            *)
(* ---------------------------------------------------------------------- *)
\* line 291: cpu_sync_barrier(&partition->sync), arrival
vmm_init_sync_arrive(c) ==
    /\ pc[c] = "psync"
    /\ LET p == pt[c]
           tok == partition[p].sync
       IN  /\ tok.ready
           /\ partition' = [partition EXCEPT ![p].sync = SyncArrive(tok)]
           /\ loc' = [loc EXCEPT ![c].tgt = SyncTarget(tok)]
    /\ pc' = [pc EXCEPT ![c] = "pwait"]
    /\ UNCHANGED << conf, aux, cpu_glb_sync, vm_assign, vmid_ctr,
                    vms, vmstack_children, pt, stack, cur_vcpu,
                    issued, claims, built >>

\* lines 291-293: released; vmstack_push(root); vcpu_run(root)
vmm_init_run(c) ==
    /\ pc[c] = "pwait"
    /\ SyncPassed(partition[pt[c]].sync, loc[c].tgt)
    /\ cur_vcpu' = [cur_vcpu EXCEPT ![c] = loc[c].root]
    /\ pc' = [pc EXCEPT ![c] = "run"]
    /\ UNCHANGED << conf, aux, cpu_glb_sync, vm_assign, vmid_ctr,
                    partition, vms, vmstack_children, pt, loc, stack,
                    issued, claims, built >>

(* ---------------------------------------------------------------------- *)
(* Configurations and initial states                                       *)
(* ---------------------------------------------------------------------- *)
CpuSet(n) == 0 .. (n - 1)

\* two top-level VMs without children, any affinity masks and counts
FlatConfigs(n) ==
    { [vmlist |-> << 1, 2 >>,
       node |-> (1 :> VmConfig(a1, n1, << >>)) @@ (2 :> VmConfig(a2, n2, << >>))] :
      a1 \in SUBSET CpuSet(n), a2 \in SUBSET CpuSet(n),
      n1 \in 0 .. MaxCpuNum, n2 \in 0 .. MaxCpuNum }

\* two top-level VMs for one CPU more: masks of no CPU, the first CPU, the
\* last CPU or every CPU
WideConfigs(n) ==
    { [vmlist |-> << 1, 2 >>,
       node |-> (1 :> VmConfig(a1, n1, << >>)) @@ (2 :> VmConfig(a2, n2, << >>))] :
      a1 \in {{}, {0}, {n - 1}, CpuSet(n)}, a2 \in {{}, {0}, {n - 1}, CpuSet(n)},
      n1 \in 1 .. 2, n2 \in 1 .. 2 }

\* no VM at all
EmptyConfig == [vmlist |-> << >>, node |-> << >>]

\* one top-level VM (required count 2) with a child and a grandchild
ChainConfigs(n) ==
    { [vmlist |-> << 1 >>,
       node |-> (1 :> VmConfig(a1, 2, << 2 >>)) @@ (2 :> VmConfig(a2, n2, << 3 >>))
                @@ (3 :> VmConfig(CpuSet(n), n3, << >>))] :
      a1 \in {{0}, CpuSet(n)}, a2 \in {{}, {0}, CpuSet(n) \ {0}},
      n2 \in 1 .. 2, n3 \in 1 .. 2 }

\* one top-level VM with two children
ForkConfigs(n) ==
    { [vmlist |-> << 1 >>,
       node |-> (1 :> VmConfig(CpuSet(n), n1, << 2, 3 >>)) @@ (2 :> VmConfig(a2, 1, << >>))
                @@ (3 :> VmConfig(CpuSet(n), n3, << >>))] :
      n1 \in 1 .. 2, a2 \in {{}, {0}, CpuSet(n)}, n3 \in 1 .. 2 }

\* one top-level VM whose only child has two children of its own
DeepForkConfigs(n) ==
    { [vmlist |-> << 1 >>,
       node |-> (1 :> VmConfig(CpuSet(n), 2, << 2 >>)) @@ (2 :> VmConfig({0}, 1, << 3, 4 >>))
                @@ (3 :> VmConfig(a3, 1, << >>)) @@ (4 :> VmConfig(CpuSet(n), 1, << >>))] :
      a3 \in {{}, CpuSet(n)} }

Boot(cfg, n) ==
    /\ vm_config = cfg
    /\ platform_cpus = n
    /\ cpu_glb_sync = SyncInit(n)
    /\ vm_assign = [state |-> "none", e |-> [i \in 0 .. (Len(cfg.vmlist) - 1) |-> ZeroAssign]]
    /\ vmid_ctr = 0
    /\ partition = [p \in Partitions |-> NoPartition]
    /\ vms = [p \in Partitions |-> [a \in Addrs |-> NoVm]]
    /\ vmstack_children = << >>
    /\ pt = [c \in AllCpus |-> 0]
    /\ pc = [c \in AllCpus |-> IF c < n THEN "entry" ELSE "off"]
    /\ loc = [c \in AllCpus |-> InitLocals]
    /\ stack = [c \in AllCpus |-> << >>]
    /\ cur_vcpu = [c \in AllCpus |-> NoVcpu]
    /\ issued = << >>
    /\ claims = {}
    /\ built = {}
    /\ vmid_lock = FALSE
    /\ vcall = [c \in AllCpus |-> NoCall]
    /\ last = NoOp

(* ---------------------------------------------------------------------- *)
(* The assignment protocol and the partition bootstrap (vmm_init up to     *)
(* the call of vmm_create_vms), over every flat configuration              *)
(* ---------------------------------------------------------------------- *)
Init ==
    \/ \E n \in 1 .. NCPU :
           \E cfg \in FlatConfigs(n) \cup {EmptyConfig} : Boot(cfg, n)
    \/ \E cfg \in WideConfigs(NCPU + 1) : Boot(cfg, NCPU + 1)

AssignStep(c) ==
    \/ vmm_init_entry(c)
    \/ vmm_init_alloc(c)
    \/ glb_barrier_arrive(c)
    \/ glb_barrier_leave(c)
    \/ vmm_init_affinity(c)
    \/ vmm_init_fallback(c)
    \/ vmm_init_partition(c)
    \/ vmm_init_follower(c)
    \/ vmm_init_free(c)

Next == \E c \in AllCpus : AssignStep(c)

Spec == Init /\ [][Next]_vars

(* ---------------------------------------------------------------------- *)
(* The whole of vmm_init, over configuration trees                         *)
(* ---------------------------------------------------------------------- *)
InitTree ==
    \E n \in 1 .. NCPU :
        \E cfg \in ChainConfigs(n) \cup ForkConfigs(n) : Boot(cfg, n)

BuildStep(c) ==
    \/ vmm_create_vms_alloc(c)
    \/ vmm_create_vms_arrive(c)
    \/ vmm_create_vms_leave(c)
    \/ vmm_create_vms_read(c)
    \/ vmm_create_vms_claim1(c)
    \/ vmm_create_vms_claim2(c)
    \/ vmm_create_vms_count2(c)
    \/ vmm_create_vms_vmid(c)
    \/ vmm_create_vms_init(c)
    \/ vmm_create_vms_node(c)
    \/ vmm_create_vms_next(c)
    \/ vmm_init_sync_arrive(c)
    \/ vmm_init_run(c)

NextTree == \E c \in AllCpus : AssignStep(c) \/ BuildStep(c)

SpecTree == InitTree /\ [][NextTree]_vars

\* the same over the trees with grandchildren that are siblings
InitDeep == \E n \in 1 .. NCPU : \E cfg \in DeepForkConfigs(n) : Boot(cfg, n)

SpecDeep == InitDeep /\ [][NextTree]_vars

(* ---------------------------------------------------------------------- *)
(* Properties of the assignment protocol and of the bootstrap (Spec)       *)
(* ---------------------------------------------------------------------- *)
Entries == DOMAIN vm_assign.e
Required(i) == Cfg(vm_config.vmlist[i + 1]).cpu_num

\* positions of vmm_init after the fallback pass, and after the bootstrap
AfterPasses == {"sync3", "wait3", "boot", "spin", "sync4", "wait4", "free",
                "create", "psync", "pwait", "run", "idle"}
AfterBootstrap == {"sync4", "wait4", "free", "create", "psync", "pwait", "run", "idle"}

PassesDone == vmlist_size > 0 /\ \A c \in Cpus : pc[c] \in AfterPasses

\* the CPUs whose local master flag is true for entry i
MastersOf(i) == {c \in Cpus : loc[c].assigned /\ loc[c].master /\ loc[c].vm_id = i}
AssignedTo(i) == {c \in Cpus : loc[c].assigned /\ loc[c].vm_id = i}

\* C1: the count ncpus of every assignment-table entry never exceeds the
\* required CPU count of its configuration
C1_NcpusWithinRequired ==
    \A i \in Entries : vm_assign.e[i].ncpus <= Required(i)

\* C2 as stated: once the passes are over every entry has exactly one CPU
\* whose master flag is true for it
C2_ExactlyOneMasterPerEntry ==
    PassesDone => \A i \in Entries : Cardinality(MastersOf(i)) = 1

\* C2 as amended: an entry never has two master CPUs and has exactly one
\* as soon as a CPU is assigned to it (an entry no CPU claims has none); the
\* master field is set exactly when the entry has its master CPU and is
\* never cleared
C2_MasterElectedOnce ==
    [][ \A i \in Entries :
            /\ vm_assign.e[i].master => vm_assign'.e[i].master
            /\ Cardinality(MastersOf(i)') <= 1
            /\ vm_assign'.e[i].master <=> MastersOf(i)' # {}
            /\ AssignedTo(i)' # {} => Cardinality(MastersOf(i)') = 1 ]_vars

\* two CPUs were assigned to one entry and the passes are over
C2_Witness ==
    /\ PassesDone
    /\ \E i \in Entries : /\ Cardinality(AssignedTo(i)) >= 2
                          /\ Cardinality(MastersOf(i)) = 1

\* C5: the entry a follower has installed at CROSSCONHYP_VM_BASE is the one
\* the master of its VM published in vm_shared_table: never 0, never the
\* entry of another VM
C5_FollowerInstallsPublished ==
    \A c \in Cpus :
        (loc[c].assigned /\ ~loc[c].master /\ pc[c] \in AfterBootstrap) =>
            /\ pt[c] # 0
            /\ pt[c] = vm_assign.e[loc[c].vm_id].vm_shared_table
            /\ \E m \in MastersOf(loc[c].vm_id) : pt[c] = pt[m] /\ pt[m] = PteOf(m)
            /\ \A j \in Entries : j # loc[c].vm_id =>
                                      vm_assign.e[j].vm_shared_table # pt[c]

\* a follower has installed its entry while another VM has a master too
C5_Witness ==
    \E c \in Cpus :
        /\ loc[c].assigned /\ ~loc[c].master /\ pc[c] \in AfterBootstrap
        /\ pt[c] # 0
        /\ \E j \in Entries : j # loc[c].vm_id /\ vm_assign.e[j].vm_shared_table # 0

\* C9: the cpus masks of distinct entries are disjoint, every claim adds a
\* CPU that held no entry (so ncpus counts the mask), and an assigned CPU is
\* in the mask of its own entry only
C9_DisjointAssignment ==
    /\ \A i, j \in Entries :
           i # j => vm_assign.e[i].cpus \cap vm_assign.e[j].cpus = {}
    /\ \A i \in Entries : vm_assign.e[i].ncpus = Cardinality(vm_assign.e[i].cpus)
    /\ \A c \in Cpus : \A i \in Entries :
           c \in vm_assign.e[i].cpus <=> (loc[c].assigned /\ loc[c].vm_id = i)

\* the passes are over, a CPU the affinity pass assigned left room in
\* another entry
C9_Witness ==
    /\ PassesDone
    /\ \E c \in Cpus : \E j \in Entries :
           /\ loc[c].assigned /\ loc[c].vm_id # j
           /\ InAffinity(c, vm_config.vmlist[loc[c].vm_id + 1])
           /\ vm_assign.e[j].ncpus < Required(j)

(* ---------------------------------------------------------------------- *)
(* vmm_alloc_vmid, statement by statement, called from any CPU             *)
(* ---------------------------------------------------------------------- *)
\* the lock is taken whether or not it is held
SpinLockIgnored(l) == TRUE

\* spin_lock: the caller goes on once the lock is free
SpinLockFree(l) == ~l

\* line 51: a CPU calls vmm_alloc_vmid
vmid_call(c) ==
    /\ c \in Cpus
    /\ vcall[c].pc = "out"
    /\ vmid_ctr < MaxVmid
    /\ vcall' = [vcall EXCEPT ![c].pc = "lock"]
    /\ UNCHANGED << conf, cpu_glb_sync, vm_assign, vmid_ctr, partition, vms,
                    vmstack_children, pt, pc, loc, stack, cur_vcpu,
                    issued, claims, built, vmid_lock, last >>

\* line 57: spin_lock(&lock)
vmid_spin_lock(c) ==
    /\ vcall[c].pc = "lock"
    /\ SpinLockFree(vmid_lock)
    /\ vmid_lock' = TRUE
    /\ vcall' = [vcall EXCEPT ![c].pc = "load"]
    /\ UNCHANGED << conf, cpu_glb_sync, vm_assign, vmid_ctr, partition, vms,
                    vmstack_children, pt, pc, loc, stack, cur_vcpu,
                    issued, claims, built, last >>

\* line 58, ++id: the counter is read
vmid_load(c) ==
    /\ vcall[c].pc = "load"
    /\ vcall' = [vcall EXCEPT ![c].tmp = vmid_ctr, ![c].pc = "store"]
    /\ UNCHANGED << conf, cpu_glb_sync, vm_assign, vmid_ctr, partition, vms,
                    vmstack_children, pt, pc, loc, stack, cur_vcpu,
                    issued, claims, built, vmid_lock, last >>

\* line 58, vmid = ++id: the incremented value is stored and kept
vmid_store(c) ==
    /\ vcall[c].pc = "store"
    /\ vmid_ctr' = vmm_alloc_vmid(vcall[c].tmp)
    /\ issued' = Append(issued, vmid_ctr')
    /\ vcall' = [vcall EXCEPT ![c].vmid = vmid_ctr', ![c].pc = "unlock"]
    /\ UNCHANGED << conf, cpu_glb_sync, vm_assign, partition, vms,
                    vmstack_children, pt, pc, loc, stack, cur_vcpu,
                    claims, built, vmid_lock, last >>

\* line 59: spin_unlock(&lock)
vmid_spin_unlock(c) ==
    /\ vcall[c].pc = "unlock"
    /\ vmid_lock' = FALSE
    /\ vcall' = [vcall EXCEPT ![c].pc = "ret"]
    /\ UNCHANGED << conf, cpu_glb_sync, vm_assign, vmid_ctr, partition, vms,
                    vmstack_children, pt, pc, loc, stack, cur_vcpu,
                    issued, claims, built, last >>

\* line 61: return vmid
vmid_return(c) ==
    /\ vcall[c].pc = "ret"
    /\ vcall' = [vcall EXCEPT ![c].pc = "out"]
    /\ UNCHANGED << conf, cpu_glb_sync, vm_assign, vmid_ctr, partition, vms,
                    vmstack_children, pt, pc, loc, stack, cur_vcpu,
                    issued, claims, built, vmid_lock, last >>

InitVmid == \E n \in 1 .. (NCPU + 1) : Boot(EmptyConfig, n)

NextVmid ==
    \E c \in AllCpus :
        \/ vmid_call(c)
        \/ vmid_spin_lock(c)
        \/ vmid_load(c)
        \/ vmid_store(c)
        \/ vmid_spin_unlock(c)
        \/ vmid_return(c)

SpecVmid == InitVmid /\ [][NextVmid]_vars

\* C4: the values vmm_alloc_vmid hands out are never 0, start at 1, grow
\* strictly in the order the callers took the lock and are pairwise
\* distinct; the counter is the last value handed out (it is never reset),
\* and what a caller is about to return is the value it was handed
C4_VmidsDistinctIncreasing ==
    /\ \A k \in 1 .. Len(issued) : issued[k] # 0
    /\ Len(issued) >= 1 => issued[1] = 1
    /\ \A k \in 1 .. (Len(issued) - 1) : issued[k] < issued[k + 1]
    /\ \A j, k \in 1 .. Len(issued) : j # k => issued[j] # issued[k]
    /\ vmid_ctr = IF issued = << >> THEN 0 ELSE issued[Len(issued)]
    /\ \A c \in Cpus : vcall[c].pc \in {"unlock", "ret"} =>
           /\ \E k \in 1 .. Len(issued) : issued[k] = vcall[c].vmid
           /\ \A d \in Cpus : (d # c /\ vcall[d].pc \in {"unlock", "ret"}) =>
                                  vcall[d].vmid # vcall[c].vmid

\* one CPU is about to return its value while another holds the lock with
\* the next value
C4_Witness ==
    /\ Len(issued) >= 2
    /\ \E c, d \in Cpus :
           /\ c # d
           /\ vcall[c].pc = "ret" /\ vcall[d].pc = "unlock"
           /\ vmid_lock

(* ---------------------------------------------------------------------- *)
(* vmm_init_dynamic, vmm_destroy_dynamic                                   *)
(* ---------------------------------------------------------------------- *)
\* vm_init_dynamic: the VM gets its identifier; it belongs to no node of
\* the static configuration (cfg = 0)
vm_init_dynamic(v, vmid) == [v EXCEPT !.id = vmid, !.sync = SyncInit(1)]

\* vm_get_vcpu(vm, 0)
vm_get_vcpu(a) == Vcpu(a, 0, 0)

\* objcache_alloc / objcache_free on the count of used slots of the pool
objcache_alloc(used) == used + 1

\* the node is unlinked but its slot is not given back
objcache_free_none(used, n) == used

objcache_free(used, n) == used - n

IsDynamic(v) == v.mapped /\ v.cfg = 0 /\ v.id # 0

\* lines 127-143
vmm_init_dynamic(c) ==
    /\ pc[c] = "run"
    /\ cur_vcpu[c] # NoVcpu
    /\ vmid_ctr < 1 + MaxDyn
    /\ HasFreeAddr(pt[c])
    /\ LET p == pt[c]
           a == FreeAddr(p)
           vmid == vmm_alloc_vmid(vmid_ctr)
           child == vm_get_vcpu(a)
           me == cur_vcpu[c]
       IN  /\ vms' = [vmm_alloc_vm_struct(p) EXCEPT ![p][a] = vm_init_dynamic(@, vmid)]
           /\ vmid_ctr' = vmid
           /\ issued' = Append(issued, vmid)
           /\ partition' = [partition EXCEPT ![p].nodes_used = objcache_alloc(@)]
           /\ vmstack_children' =
                  [x \in DOMAIN vmstack_children \cup {child} |->
                      IF x = child THEN << >>
                      ELSE IF x = me THEN list_push(vmstack_children[x], child)
                      ELSE vmstack_children[x]]
           /\ last' = [op |-> "create", vm |-> a, cpu |-> c, vcpu |-> me,
                       used |-> partition[p].nodes_used,
                       children |-> vmstack_children,
                       prev |-> last.op, prev_vm |-> last.vm, prev_vcpu |-> last.vcpu]
    /\ UNCHANGED << conf, cpu_glb_sync, vm_assign, pt, pc, loc, stack, cur_vcpu,
                    claims, built, vmid_lock, vcall >>

\* lines 147-154: the positions of the nodes the scan unlinks. The loop
\* reads the next pointer of a node it has just freed: it then goes on
\* with the rest of the list, or ends
Unlinked(list, a, goes_on) ==
    LET hits == {k \in 1 .. Len(list) : list[k].vm = a}
    IN  IF hits = {} \/ goes_on THEN hits
        ELSE {CHOOSE k \in hits : \A j \in hits : k <= j}

\* the nodes are freed but stay linked
ListKeep(list, gone, k) == list

\* list_rm of the nodes at the positions in gone
RECURSIVE ListRm(_, _, _)
ListRm(list, gone, k) ==
    IF k > Len(list) THEN << >>
    ELSE (IF k \in gone THEN << >> ELSE << list[k] >>) \o ListRm(list, gone, k + 1)

\* lines 145-158
vmm_destroy_dynamic(c, a) ==
    /\ pc[c] = "run"
    /\ cur_vcpu[c] # NoVcpu
    /\ IsDynamic(vms[pt[c]][a])
    /\ \A d \in Cpus : cur_vcpu[d] # vm_get_vcpu(a)   \* the VM is not running
    /\ \E goes_on \in BOOLEAN :
        LET p == pt[c]
            me == cur_vcpu[c]
            gone == Unlinked(vmstack_children[me], a, goes_on)
        IN  /\ vmstack_children' = [vmstack_children EXCEPT
                                       ![me] = ListRm(@, gone, 1)]
            /\ partition' = [partition EXCEPT
                                ![p].nodes_used = objcache_free(@, Cardinality(gone))]
            /\ vms' = [vms EXCEPT ![p][a] = NoVm]
            /\ last' = [op |-> "destroy", vm |-> a, cpu |-> c, vcpu |-> me,
                        used |-> partition[p].nodes_used,
                        children |-> vmstack_children,
                        prev |-> last.op, prev_vm |-> last.vm, prev_vcpu |-> last.vcpu]
    /\ UNCHANGED << conf, cpu_glb_sync, vm_assign, vmid_ctr, pt, pc, loc, stack,
                    cur_vcpu, issued, claims, built, vmid_lock, vcall >>

\* one VM for every CPU of the platform, no children
DynConfig(n) == [vmlist |-> << 1 >>, node |-> (1 :> VmConfig(CpuSet(n), n, << >>))]

InitDyn == \E n \in 1 .. NCPU : Boot(DynConfig(n), n)

DynBootStep(c) ==
    \/ vmm_create_vms_alloc(c)
    \/ vmm_create_vms_arrive(c)
    \/ vmm_create_vms_leave(c)
    \/ vmm_create_vms_read(c)
    \/ vmm_create_vms_claim1(c)
    \/ vmm_create_vms_claim2(c)
    \/ vmm_create_vms_vmid(c)
    \/ vmm_create_vms_init(c)
    \/ vmm_init_sync_arrive(c)
    \/ vmm_init_run(c)

NextDyn ==
    \E c \in AllCpus :
        \/ AssignStep(c)
        \/ DynBootStep(c)
        \/ vmm_init_dynamic(c)
        \/ \E a \in Addrs : vmm_destroy_dynamic(c, a)

SpecDyn == InitDyn /\ [][NextDyn]_vars

\* the step destroys the VM that the last dynamic operation created
DestroysLastCreated ==
    /\ last.op = "create"
    /\ last'.op = "destroy"
    /\ last'.vm = last.vm

SameCallerNoStaleNode ==
    /\ last'.vcpu = last.vcpu
    /\ \A k \in 1 .. Len(last.children[last.vcpu]) :
           last.children[last.vcpu][k].vm # last.vm

Nodes == DOMAIN vm_config.node

\* every CPU that booted has reached vcpu_run (line 293) or cpu_idle
Done == \A c \in Cpus : pc[c] \in {"run", "idle"}

ClaimsOf(n) == {cl \in claims : cl.cfg = n}
LevelMasters(n) == {cl \in claims : cl.cfg = n /\ cl.master}

\* C3: at every level of vmm_create_vms (the top-level VM and every nested
\* child VM), as soon as some CPU has claimed a slot of the VM, exactly one
\* of the CPUs that claimed a slot has master = true, whatever the
\* interleaving of the CPUs
C3_OneMasterPerLevel ==
    \A n \in Nodes : ClaimsOf(n) # {} => Cardinality(LevelMasters(n)) = 1

\* C6: no two VM instances are built for one configuration node or in one
\* VM struct, and when every CPU has left vmm_init each of the C nodes of
\* the configuration tree has its instance
C6_OneInstancePerNode ==
    /\ \A b1, b2 \in built :
           b1 # b2 => /\ b1.cfg # b2.cfg
                      /\ << b1.part, b1.vm >> # << b2.part, b2.vm >>
    /\ Done => /\ \A n \in Nodes : \E b \in built : b.cfg = n
               /\ Cardinality(built) = Cardinality(Nodes)

IsEdge(p, ch) == \E k \in 1 .. Len(Cfg(p).children) : Cfg(p).children[k] = ch

\* the VM struct a vCPU lives in
VmOf(v) == vms[pt[v.cpu]][v.vm]

ParentVcpus(p) == {v \in DOMAIN vmstack_children : VmOf(v).cfg = p}

\* the node at position k of the list of v is a well-formed record of the
\* edge from the VM of v to ch
RecordsEdge(v, k, ch) ==
    LET child == vmstack_children[v][k]
    IN  /\ VmOf(child).cfg = ch
        /\ VmOf(child).id >= 1
        /\ VmOf(child).id # VmOf(v).id

\* C7: when every CPU has left vmm_init, every edge of the configuration
\* tree is recorded by a node on a child list of the parent VM, the node
\* references a vCPU of the child VM whose VMID is valid and is not the
\* parent's, no list holds two nodes of one child VM, and no node records a
\* pair that is not an edge of the configuration
C7_EdgesMatchConfig ==
    Done =>
      /\ \A p \in Nodes : \A ch \in Nodes :
             IsEdge(p, ch) =>
                 \E v \in ParentVcpus(p) :
                     \E k \in 1 .. Len(vmstack_children[v]) : RecordsEdge(v, k, ch)
      /\ \A v \in DOMAIN vmstack_children :
             \A k \in 1 .. Len(vmstack_children[v]) :
                 /\ VmOf(v).cfg \in Nodes
                 /\ VmOf(vmstack_children[v][k]).cfg \in Nodes
                 /\ IsEdge(VmOf(v).cfg, VmOf(vmstack_children[v][k]).cfg)
                 /\ \A j \in 1 .. Len(vmstack_children[v]) :
                        j # k => vmstack_children[v][j].vm # vmstack_children[v][k].vm

\* every physical CPU keeps executing: a CPU that can take a step of
\* vmm_init or vmm_create_vms eventually takes one
FairTree == SpecTree /\ \A c \in AllCpus : WF_vars(AssignStep(c) \/ BuildStep(c))

\* C10: every CPU that enters vmm_init eventually reaches vcpu_run or
\* cpu_idle: none blocks forever at a barrier or in the follower spin-wait
C10_EveryCpuRunsOrIdles ==
    \A c \in AllCpus : (pc[c] = "entry") ~> (pc[c] \in {"run", "idle"})

(* ---------------------------------------------------------------------- *)
(* Further properties of the assignment protocol (Spec)                    *)
(* ---------------------------------------------------------------------- *)
RECURSIVE SumRequired(_)
SumRequired(k) == IF k = 0 THEN 0 ELSE Required(k - 1) + SumRequired(k - 1)

Min(a, b) == IF a < b THEN a ELSE b

AssignedCpus == {c \in Cpus : loc[c].assigned}

\* C11: a CPU that has finished both passes unassigned leaves every entry
\* at its required count or above, and once every CPU has finished both
\* passes the number of assigned CPUs is the minimum of the number of CPUs
\* and the sum of the required counts
C11_AssignedIsMinimum ==
    /\ \A c \in Cpus :
           (vmlist_size > 0 /\ pc[c] \in AfterPasses /\ ~loc[c].assigned) =>
               \A i \in Entries : vm_assign.e[i].ncpus >= Required(i)
    /\ PassesDone =>
           Cardinality(AssignedCpus) = Min(platform_cpus, SumRequired(vmlist_size))

\* positions of vmm_init before the end of the affinity pass
BeforeFallback == {"entry", "alloc", "sync1", "wait1", "aff"}

Affine(i) == Cfg(vm_config.vmlist[i + 1]).cpu_affinity

\* c is affine to entry i and ends assigned neither to i nor to an entry
\* of lower index
RefusedAt(c, i) ==
    /\ c \in Affine(i)
    /\ ~(loc[c].assigned /\ loc[c].vm_id <= i)

\* C12: while a CPU is in the fallback pass or beyond, no CPU is still in
\* or before its affinity pass; and when the passes are over, an entry that
\* refused one of its affine CPUs is full and held by affine CPUs only
C12_AffinityBeforeFallback ==
    /\ \A c \in Cpus : \A d \in Cpus :
           (vmlist_size > 0 /\ pc[c] \in ({"fb"} \cup AfterPasses)) =>
               pc[d] \notin BeforeFallback
    /\ PassesDone =>
           \A c \in Cpus : \A i \in Entries :
               RefusedAt(c, i) =>
                   /\ vm_assign.e[i].cpus \subseteq Affine(i)
                   /\ vm_assign.e[i].ncpus >= Required(i)

\* the passes are over; an entry refused an affine CPU, which the fallback
\* pass then gave to a later entry it is not affine to
C12_Witness ==
    /\ PassesDone
    /\ \E c \in Cpus : \E i \in Entries :
           /\ RefusedAt(c, i)
           /\ Required(i) >= 1
           /\ loc[c].assigned /\ loc[c].vm_id > i
           /\ c \notin Affine(loc[c].vm_id)

(* ---------------------------------------------------------------------- *)
(* Further properties of vmm_create_vms (SpecTree)                         *)
(* ---------------------------------------------------------------------- *)
\* c is about to read partition->init.curr_vm (line 77) or to test
\* partition->init.ncpus for a claim (lines 84, 99)
UsesLevelState(c) ==
    /\ pc[c] = "create"
    /\ \/ Top(c).pc \in {"cv_read", "cv_claim1"}
       \/ Top(c).pc = "cv_claim2" /\ ~Top(c).assigned

\* C13: whenever a CPU reads partition->init.curr_vm or attempts a claim at
\* a level, the last allocation of VM storage and reset of the counter
\* (lines 66-69) was made for that very level
C13_LevelStateIsFresh ==
    \A c \in Cpus :
        UsesLevelState(c) => partition[pt[c]].level = Top(c).config

\* the invocations of vmm_create_vms for node n on the call stack of d
FramesOf(d, n) == {j \in 1 .. Len(stack[d]) : stack[d][j].config = n}

\* d, a CPU that claimed the parent node n, has finished its part in the
\* child of index k - 1 and arrived at the barrier of line 120 (or has gone
\* further, or has returned from the invocation for n)
ArrivedAfterChild(d, n, k) ==
    \A j \in FramesOf(d, n) :
        \/ stack[d][j].i >= k
        \/ /\ stack[d][j].i = k - 1
           /\ j = 1
           /\ stack[d][j].pc = "cv_wait3"

\* C14: while a CPU is in the invocation of vmm_create_vms for the child of
\* index k >= 1 of a parent VM (second or later child), every CPU that
\* claimed the parent has arrived at the parent VM's barrier after the
\* child of index k - 1
C14_SiblingsOneAfterAnother ==
    \A c \in Cpus :
        \A j \in 1 .. (Len(stack[c]) - 1) :
            LET parent == stack[c][j + 1]
            IN  parent.i >= 1 =>
                    \A d \in Cpus :
                        (pt[d] = pt[c] /\ ClaimsOf(parent.config) # {}
                         /\ \E cl \in ClaimsOf(parent.config) : cl.cpu = d) =>
                            ArrivedAfterChild(d, parent.config, parent.i)

\* c claimed a slot of node n with the given master flag
Claimed(c, n, m) == [cfg |-> n, cpu |-> c, master |-> m] \in claims

\* C15 as stated: only the level master of a VM recurses into the children
\* of the VM, and only its vCPU has nodes on its child list
C15_OnlyLevelMasterRecurses ==
    /\ \A c \in Cpus : \A j \in 1 .. (Len(stack[c]) - 1) : stack[c][j + 1].master
    /\ \A v \in DOMAIN vmstack_children :
           vmstack_children[v] # << >> => Claimed(v.cpu, v.cfg, TRUE)

\* C15 as amended: every CPU that claimed a slot of a VM, level master or
\* not, recurses into the children with its own vCPU as parent; the nodes
\* on the child list of a vCPU reference vCPUs of the same physical CPU in
\* the children it claimed; and when vmm_init is over every CPU has a node
\* for each child it claimed together with the parent
C15_EveryClaimantRecurses ==
    /\ \A c \in Cpus : \A j \in 1 .. (Len(stack[c]) - 1) :
           /\ stack[c][j + 1].assigned
           /\ stack[c][j].parent = stack[c][j + 1].vcpu
           /\ stack[c][j].parent.cpu = c
    /\ \A v \in DOMAIN vmstack_children : \A k \in 1 .. Len(vmstack_children[v]) :
           LET child == vmstack_children[v][k]
           IN  /\ child.cpu = v.cpu
               /\ IsEdge(v.cfg, child.cfg)
               /\ \E m \in BOOLEAN : Claimed(v.cpu, v.cfg, m)
               /\ \E m \in BOOLEAN : Claimed(v.cpu, child.cfg, m)
    /\ Done =>
           \A c \in Cpus : \A p \in Nodes : \A ch \in Nodes :
               (IsEdge(p, ch) /\ (\E m \in BOOLEAN : Claimed(c, p, m))
                              /\ (\E m \in BOOLEAN : Claimed(c, ch, m))) =>
                   \E v \in DOMAIN vmstack_children :
                       /\ v.cfg = p /\ v.cpu = c
                       /\ \E k \in 1 .. Len(vmstack_children[v]) :
                              /\ vmstack_children[v][k].cfg = ch
                              /\ vmstack_children[v][k].cpu = c

\* vmm_init is over and a CPU that claimed a VM without being its level
\* master has a node on the child list of its vCPU
C15_Witness ==
    /\ Done
    /\ \E v \in DOMAIN vmstack_children :
           /\ vmstack_children[v] # << >>
           /\ Claimed(v.cpu, v.cfg, FALSE)
           /\ ~Claimed(v.cpu, v.cfg, TRUE)

(* ---------------------------------------------------------------------- *)
(* The lifetime of the assignment table (Spec)                             *)
(* ---------------------------------------------------------------------- *)
\* positions of vmm_init whose next statement locks, reads or writes an
\* entry of vm_assign (lines 203-218, 229-245, 265, 271, 273-275)
AccessesTable == {"aff", "fb", "boot", "spin"}

\* C16: a CPU about to lock, read or write an entry of vm_assign finds the
\* table allocated by the global master and not yet released, and the
\* entries change only while the table is allocated
C16_TableUsedWhileLive ==
    /\ [](\A c \in Cpus : pc[c] \in AccessesTable => vm_assign.state = "live")
    /\ [][vm_assign.e' # vm_assign.e =>
              (vm_assign.state = "live" /\ vm_assign'.state = "live")]_vars

\* the global master has released the table while a follower, which read
\* its entry in the spin-wait, has not yet left the last global barrier
C16_Witness ==
    /\ vm_assign.state = "freed"
    /\ \E c \in Cpus :
           /\ pc[c] = "wait4"
           /\ loc[c].assigned /\ ~loc[c].master
           /\ pt[c] # 0

(* ---------------------------------------------------------------------- *)
(* Dynamic VMs that own children (SpecNest)                                *)
(* ---------------------------------------------------------------------- *)
\* the VM stack of the runtime: the CPU goes on to run a child of its
\* current vCPU, a dynamic VM that no other CPU is running
vmstack_push(c) ==
    /\ pc[c] = "run"
    /\ cur_vcpu[c] # NoVcpu
    /\ \E k \in 1 .. Len(vmstack_children[cur_vcpu[c]]) :
           LET child == vmstack_children[cur_vcpu[c]][k]
           IN  /\ IsDynamic(vms[pt[c]][child.vm])
               /\ child = vm_get_vcpu(child.vm)
               /\ \A d \in Cpus : cur_vcpu[d] # child
               /\ cur_vcpu' = [cur_vcpu EXCEPT ![c] = child]
    /\ UNCHANGED << conf, aux, cpu_glb_sync, vm_assign, vmid_ctr, partition, vms,
                    vmstack_children, pt, pc, loc, stack, issued, claims, built >>

\* the CPU comes back to the vCPU it entered the partition with
vmstack_pop(c) ==
    /\ pc[c] = "run"
    /\ cur_vcpu[c] # NoVcpu
    /\ cur_vcpu[c] # loc[c].root
    /\ cur_vcpu' = [cur_vcpu EXCEPT ![c] = loc[c].root]
    /\ UNCHANGED << conf, aux, cpu_glb_sync, vm_assign, vmid_ctr, partition, vms,
                    vmstack_children, pt, pc, loc, stack, issued, claims, built >>

NextNest ==
    \E c \in AllCpus :
        \/ AssignStep(c)
        \/ DynBootStep(c)
        \/ vmm_init_dynamic(c)
        \/ \E a \in Addrs : vmm_destroy_dynamic(c, a)
        \/ vmstack_push(c)
        \/ vmstack_pop(c)

SpecNest == InitDyn /\ [][NextNest]_vars

\* the step is a call of vmm_destroy_dynamic
DestroyStep == last'.op = "destroy" /\ last' # last

\* the positions of the caller's list whose node references the VM
NodesFor(list, a) == {k \in 1 .. Len(list) : list[k].vm = a}

\* the list without its k-th node
Without(list, k) == SubSeq(list, 1, k - 1) \o SubSeq(list, k + 1, Len(list))

\* every list but the caller's stays as it is, the list of the destroyed
\* VM's own vCPU included
OtherListsKept ==
    /\ DOMAIN vmstack_children' = DOMAIN vmstack_children
    /\ \A x \in DOMAIN vmstack_children :
           x # last'.vcpu => vmstack_children'[x] = vmstack_children[x]

\* C17 as stated: vmm_destroy_dynamic(vm) unlinks and frees exactly the one
\* node of the calling vCPU's child list that references vm, and leaves
\* every other node of that list, the lists of all other vCPUs and the
\* nodes owned by the destroyed VM as they are
C17_RemovesExactlyOneNode ==
    [][ DestroyStep =>
            LET old == vmstack_children[last'.vcpu]
                hits == NodesFor(old, last'.vm)
            IN  /\ Cardinality(hits) = 1
                /\ \A k \in hits : vmstack_children'[last'.vcpu] = Without(old, k)
                /\ partition'[pt[last'.cpu]].nodes_used =
                       partition[pt[last'.cpu]].nodes_used - 1
                /\ OtherListsKept ]_vars

\* C17 as amended: the lists of all other vCPUs and of the destroyed VM are
\* kept in every call; when the caller's list holds exactly one node that
\* references vm, that node alone is unlinked and one slot is freed; when it
\* holds none, the list and the pool stay as they are
C17_RemovesTheOnlyNode ==
    [][ DestroyStep =>
            LET old == vmstack_children[last'.vcpu]
                hits == NodesFor(old, last'.vm)
                used == partition[pt[last'.cpu]].nodes_used
            IN  /\ OtherListsKept
                /\ Cardinality(hits) = 1 =>
                       /\ \A k \in hits : vmstack_children'[last'.vcpu] = Without(old, k)
                       /\ partition'[pt[last'.cpu]].nodes_used = used - 1
                /\ hits = {} =>
                       /\ vmstack_children'[last'.vcpu] = old
                       /\ partition'[pt[last'.cpu]].nodes_used = used ]_vars

\* a VM that owns a child node was destroyed on a vCPU whose list held one
\* node for it and keeps another node; the child node is still there
C17_Witness ==
    /\ last.op = "destroy"
    /\ Cardinality(NodesFor(last.children[last.vcpu], last.vm)) = 1
    /\ Len(last.children[last.vcpu]) >= 2
    /\ Len(vmstack_children[last.vcpu]) = Len(last.children[last.vcpu]) - 1
    /\ Len(vmstack_children[vm_get_vcpu(last.vm)]) >= 1

(* ---------------------------------------------------------------------- *)
(* The follower spin-wait under fair scheduling (FairAssign)               *)
(* ---------------------------------------------------------------------- *)
\* every physical CPU keeps executing vmm_init
FairAssign == Spec /\ \A c \in AllCpus : WF_vars(AssignStep(c))

\* c was assigned to an entry without being elected its master
Follower(c) == loc[c].assigned /\ ~loc[c].master

\* C18: in every state of the assignment protocol an entry has ncpus > 0
\* exactly when its master flag is set, every follower CPU has a master CPU
\* for its entry, and under fair scheduling a follower that spins on
\* vm_shared_table eventually leaves the spin-wait
C18_FollowerSpinEnds ==
    /\ [](\A i \in Entries : vm_assign.e[i].ncpus > 0 <=> vm_assign.e[i].master)
    /\ [](\A c \in Cpus : Follower(c) => MastersOf(loc[c].vm_id) # {})
    /\ \A c \in AllCpus : (pc[c] = "spin") ~> (pc[c] = "sync4")

\* a follower spins while the master of its entry has not yet published
C18_Witness ==
    \E c \in Cpus :
        /\ pc[c] = "spin"
        /\ Follower(c)
        /\ vm_assign.e[loc[c].vm_id].vm_shared_table = 0
        /\ vm_assign.e[loc[c].vm_id].ncpus >= 2

(* ---------------------------------------------------------------------- *)
(* The participants of partition->sync (SpecTree)                          *)
(* ---------------------------------------------------------------------- *)
\* the number of times c has arrived at partition->sync: at lines 72 and 93
\* of its top-level invocation of vmm_create_vms and at line 291
ArrivalsAtPartitionSync(c) ==
    IF pc[c] = "create"
    THEN LET f == stack[c][Len(stack[c])]
         IN  IF f.pc \in {"cv_alloc", "cv_sync1"} THEN 0
             ELSE IF f.pc \in {"cv_wait1", "cv_read", "cv_claim1", "cv_sync2"} THEN 1
             ELSE 2
    ELSE IF pc[c] = "psync" THEN 2
    ELSE IF pc[c] \in {"pwait", "run"} THEN 3
    ELSE 0

RECURSIVE SumArrivals(_, _)
SumArrivals(S, k) ==
    IF k = 0 THEN 0
    ELSE (IF (k - 1) \in S THEN ArrivalsAtPartitionSync(k - 1) ELSE 0)
         + SumArrivals(S, k - 1)

\* the CPUs that have called vmm_create_vms(vmlist[i], NULL)
CalledCreate(i) ==
    {c \in AssignedTo(i) : pc[c] \in {"create", "psync", "pwait", "run"}}

\* C19: once the master of a top-level VM has set up its partition, every
\* CPU has finished both passes, the participant count of partition->sync
\* is the number of CPUs assigned to the VM, only those CPUs use the
\* partition and call vmm_create_vms for it, the arrivals counted by the
\* barrier are theirs, and at the end each of them has called
\* vmm_create_vms and has arrived three times
C19_PartitionSyncCountsAssigned ==
    \A i \in Entries : \A m \in MastersOf(i) :
        pt[m] # 0 =>
            LET tok == partition[pt[m]].sync
                cpus == AssignedTo(i)
            IN  /\ \A c \in Cpus : pc[c] \in AfterPasses
                /\ tok.n = Cardinality(cpus)
                /\ \A c \in Cpus : (pt[c] = pt[m]) => c \in cpus
                /\ \A c \in cpus : pc[c] # "idle"
                /\ tok.count = SumArrivals(cpus, MaxCpus)
                /\ Done => /\ CalledCreate(i) = cpus
                           /\ \A c \in cpus : ArrivalsAtPartitionSync(c) = 3

\* two CPUs of one top-level VM run their vCPUs after three rounds of the
\* partition's barrier
C19_Witness ==
    /\ Done
    /\ \E i \in Entries : \E m \in MastersOf(i) :
           /\ Cardinality(AssignedTo(i)) = 2
           /\ partition[pt[m]].sync.n = 2
           /\ partition[pt[m]].sync.count = 6

====
